---------------------------- MODULE Spec2Model ----------------------------
(***************************************************************************)
(* Model of src/ip_scanner.py: the IPScanner class (prefix detection, the  *)
(* candidate queue, the worker threads running scan_port, and the          *)
(* coordinator scan_network that joins the queue).                         *)
(*                                                                         *)
(* Strings are modelled by their structure.  The text printed by           *)
(* `hostname -I` is a sequence of whitespace-separated tokens, each token  *)
(* the sequence of its '.'-separated parts, so that str.split(),           *)
(* str.split('.') and '.'.join are computed as the source computes them.   *)
(* A candidate address f"{network_prefix}.{i}" is the record of the prefix *)
(* and the host number.                                                    *)
(***************************************************************************)
EXTENDS Integers, Sequences, FiniteSets, TLC

(***************************************************************************)
(* Bounds of the model.                                                    *)
(***************************************************************************)
\* Number of worker threads of one scan (the source starts 100).
NumWorkers == 2
\* Last host number of the shortened candidate range used by the scan
\* specifications (the source enumerates 1..254; InitEnum uses that range).
MaxHost == 3

\* Number of scans the user starts in one run of the application.
MaxScans == 3
\* Number of key commands sent to the mirroring window in one run.
MaxKeys == 40

(***************************************************************************)
(* Program constants.                                                      *)
(***************************************************************************)
\* The port of launch_scrcpy, f"scrcpy --tcpip={ip}:5555".
AdbPort == 5555
\* range(1, 255) of scan_network.
RangeStart == 1
RangeStop == 255
\* The fallback of get_network_prefix, "192.168.1".
FallbackPrefix == <<"192", "168", "1">>

\* The threads one call of scan_network starts; those of the first call.
Workers == 1..NumWorkers

\* The threads the n-th call of scan_network starts.
ScanThreads(n) == ((n - 1) * NumWorkers + 1)..(n * NumWorkers)

\* All the worker threads of a run of at most two scans.
Threads == 1..(2 * NumWorkers)

\* Decimal spellings of octets 0..255 that occur in the modelled outputs.
OctetStrings == {"0", "1", "7", "10", "20", "168", "192"}

\* What subprocess.run(['hostname', '-I'], ...) can give: it raises (the
\* command is missing), or it returns with some text on stdout.
HostnameResults ==
  { [raises |-> TRUE,  stdout |-> << >>],
    [raises |-> FALSE, stdout |-> << >>],
    [raises |-> FALSE, stdout |-> << <<"10", "0", "0", "7">> >>],
    [raises |-> FALSE, stdout |-> << <<"192", "168", "1", "20">>,
                                     <<"fe80::1">> >>],
    [raises |-> FALSE, stdout |-> << <<"fe80::1">>,
                                     <<"10", "0", "0", "7">> >>],
    [raises |-> FALSE, stdout |-> << <<"10", "0">> >>] }

\* The results of `hostname -I` the scan specifications start from: a
\* dotted IPv4 address comes first, or another token does.  (The enumeration
\* specification starts from all of HostnameResults.)
ScanHostnameResults ==
  { r \in HostnameResults :
      r.stdout \in { << <<"10", "0", "0", "7">> >>,
                     << <<"fe80::1">>, <<"10", "0", "0", "7">> >> } }

\* What sock.connect_ex returns: 0 when the connection is made, else an
\* errno (here ECONNREFUSED for a refused connection and EAGAIN for one
\* that timed out).
ConnectExReturns == {0, 111, 11}

\* How the network answers the probe of one host: the connection is made
\* (connect_ex returns 0), it is not (connect_ex returns an errno), or the
\* probe raises an exception, in socket.socket() or after the socket was
\* created.
Outcomes == {"open", "closed", "error"}

VARIABLES
  hostname_result,  \* what `hostname -I` gives in this run
  range_stop,       \* stop of the candidate range this run enumerates
  main_pc,          \* position of the thread running scan_network
  network_prefix,   \* local of scan_network
  i,                \* loop variable of the enqueue loop
  ip_queue,         \* self.ip_queue: the items not yet dequeued
  unfinished_tasks, \* self.ip_queue.unfinished_tasks
  open_ips,         \* self.open_ips
  print_lock,       \* self.print_lock: 0 when free, else the holder
  pc,               \* position of each worker thread in scan_port
  ip,               \* local `ip` of each worker (NoIp before the first get)
  sock_open,        \* whether the object bound to each worker's `sock` is an open socket
  net,              \* per host: outcome of its probe ("none" until probed)
  probe_calls,      \* per host: number of probes started by the current scan
  scan_no,          \* which call of scan_network is running: 1 or 2
  first_found,      \* the addresses in the list the first call returned
  scan_button,      \* state of ScannerApp.scan_button
  refresh_button,   \* state of ScannerApp.refresh_button
  connect_button,   \* state of ScannerApp.connect_button
  status_label,     \* which text ScannerApp.status_label shows
  device_listbox,   \* the rows of ScannerApp.device_listbox
  selection,        \* device_listbox.curselection(): 0 for none, else the row
  devices,          \* ScannerApp.devices
  scanning,         \* number of scan threads inside scanner.scan_network()
  assigned,         \* number of scan threads that have set self.devices
                    \* and not yet called root.after
  pending_updates,  \* number of update_device_list callbacks queued by root.after
  scans_started,    \* number of scan threads started so far
  launched,         \* the last launch_scrcpy: its target and the row chosen
  screen_is_off,    \* ScannerApp.screen_is_off
  screen_off_button,\* text of ScannerApp.screen_off_button
  keys_sent         \* the key commands sent by `xdotool key`, in order

\* The state of the ScannerApp window and of its scan threads.
app_vars == <<scan_button, refresh_button, connect_button, status_label,
              device_listbox, selection, devices, scanning, assigned,
              pending_updates, scans_started, launched>>

\* The state of the screen toggle.
screen_vars == <<screen_is_off, screen_off_button, keys_sent>>

\* The state of one IPScanner, of its threads and of the network it probes.
scanner_vars == <<hostname_result, range_stop, main_pc, network_prefix, i,
                  ip_queue, unfinished_tasks, open_ips, print_lock, pc, ip,
                  sock_open, net, probe_calls>>

\* The state outside one call of scan_network.
other_vars == <<scan_no, first_found, app_vars, screen_vars>>

vars == <<hostname_result, range_stop, main_pc, network_prefix, i, ip_queue,
          unfinished_tasks, open_ips, print_lock, pc, ip, sock_open, net,
          probe_calls, other_vars>>

\* f"{network_prefix}.{i}"
Address(prefix, host) == [prefix |-> prefix, host |-> host]

\* The value of a worker's `ip` before its first get().
NoIp == Address(<< >>, 0)

\* list[:n]
Take(s, n) == SubSeq(s, 1, IF Len(s) < n THEN Len(s) ELSE n)


(***************************************************************************)
(* Initial states.  IPScanner.__init__ gives an empty result list, an      *)
(* empty queue and a free lock; no thread has been started.                *)
(***************************************************************************)
InitScanner ==
  /\ open_ips = << >>
  /\ ip_queue = << >>
  /\ unfinished_tasks = 0
  /\ print_lock = 0

\* f"{ip}:5555", the target launch_scrcpy gives to scrcpy.
Target(address) == [ip |-> address, port |-> AdbPort]

\* No launch_scrcpy yet.
NoLaunch == [target |-> [ip |-> NoIp, port |-> 0], row |-> NoIp]

\* ScannerApp.__init__ and setup_ui: the buttons, the empty list, the screen
\* taken to be on.  (self.devices is first assigned by a scan thread; it is
\* not read before.)
InitApp ==
  /\ scan_button = "normal"
  /\ refresh_button = "disabled"
  /\ connect_button = "disabled"
  /\ status_label = "Click 'Scan Network'"
  /\ device_listbox = << >>
  /\ selection = 0
  /\ devices = << >>
  /\ scanning = 0
  /\ assigned = 0
  /\ pending_updates = 0
  /\ scans_started = 0
  /\ launched = NoLaunch
  /\ screen_is_off = FALSE
  /\ screen_off_button = "Screen Off"
  /\ keys_sent = << >>

InitCommon ==
  /\ InitScanner
  /\ InitApp
  /\ main_pc = "get_network_prefix"
  /\ network_prefix = << >>
  /\ i = RangeStart
  /\ pc = [w \in Threads |-> "idle"]
  /\ ip = [w \in Threads |-> NoIp]
  /\ sock_open = [w \in Threads |-> FALSE]
  /\ scan_no = 1
  /\ first_found = { }

\* The scan specifications enumerate the shortened range 1..MaxHost.
Init ==
  /\ InitCommon
  /\ hostname_result \in ScanHostnameResults
  /\ range_stop = MaxHost + 1
  /\ net = [h \in RangeStart..MaxHost |-> "none"]
  /\ probe_calls = [h \in RangeStart..MaxHost |-> 0]

\* The enumeration specification uses the range of the source, range(1, 255).
InitEnum ==
  /\ InitCommon
  /\ hostname_result \in HostnameResults
  /\ range_stop = RangeStop
  /\ net = [h \in RangeStart..(RangeStop - 1) |-> "none"]
  /\ probe_calls = [h \in RangeStart..(RangeStop - 1) |-> 0]

(***************************************************************************)
(* IPScanner.get_network_prefix                                            *)
(***************************************************************************)
\* The value get_network_prefix returns for a result of `hostname -I`:
\* subprocess.run raising, or split()[0] raising IndexError on an output
\* with no token, is caught and gives the fallback; otherwise the first
\* three '.'-separated parts of the first token are joined again.
PrefixOf(r) ==
  IF r.raises \/ r.stdout = << >>
    THEN FallbackPrefix
    ELSE Take(Head(r.stdout), 3)

GetNetworkPrefix ==
  /\ main_pc = "get_network_prefix"
  /\ network_prefix' = PrefixOf(hostname_result)
  /\ main_pc' = "put"
  /\ UNCHANGED <<other_vars, hostname_result, range_stop, i, ip_queue, unfinished_tasks,
                 open_ips, print_lock, pc, ip, sock_open, net, probe_calls>>

(***************************************************************************)
(* IPScanner.scan_network: the enqueue loop, the thread-start loop, join.  *)
(***************************************************************************)
\* A loop that also takes the stop value of the range.
PutLoopIncludesStop == i <= range_stop

\* Loop condition of `for i in range(1, 255)`.
PutLoopContinues == i < range_stop

\* One iteration of the enqueue loop: Queue.put appends the item and counts
\* it as unfinished.  When the range is exhausted the loop is left.
Put ==
  /\ main_pc = "put"
  /\ IF PutLoopContinues
       THEN /\ ip_queue' = Append(ip_queue, Address(network_prefix, i))
            /\ unfinished_tasks' = unfinished_tasks + 1
            /\ i' = i + 1
            /\ main_pc' = main_pc
       ELSE /\ main_pc' = "start_threads"
            /\ UNCHANGED <<ip_queue, unfinished_tasks, i>>
  /\ UNCHANGED <<other_vars, hostname_result, range_stop, network_prefix, open_ips,
                 print_lock, pc, ip, sock_open, net, probe_calls>>

\* One iteration of the thread-start loop: the next thread is started and
\* runs scan_port from its loop head.  Threads already started keep running
\* while the remaining ones are started.
StartThread ==
  /\ main_pc = "start_threads"
  /\ IF \E w \in ScanThreads(scan_no) : pc[w] = "idle"
       THEN LET w == CHOOSE v \in ScanThreads(scan_no) :
                       /\ pc[v] = "idle"
                       /\ \A u \in ScanThreads(scan_no) : pc[u] = "idle" => v <= u
            IN  pc' = [pc EXCEPT ![w] = "empty"]
       ELSE pc' = pc
  /\ main_pc' = IF \E w \in ScanThreads(scan_no) : pc'[w] = "idle"
                  THEN "start_threads" ELSE "join"
  /\ UNCHANGED <<other_vars, hostname_result, range_stop, network_prefix, i, ip_queue,
                 unfinished_tasks, open_ips, print_lock, ip, sock_open,
                 net, probe_calls>>

\* A join that is released while one task is still unfinished.
JoinReleasedOneEarly == unfinished_tasks <= 1

\* A join that only waits for the queue to hold no item.
JoinReleasedWhenEmpty == ip_queue = << >>

\* Queue.join blocks while unfinished_tasks is not zero.
JoinReleased == unfinished_tasks = 0

\* self.ip_queue.join() followed by `return self.open_ips`.
Join ==
  /\ main_pc = "join"
  /\ JoinReleased
  /\ main_pc' = "returned"
  /\ UNCHANGED <<other_vars, hostname_result, range_stop, network_prefix, i, ip_queue,
                 unfinished_tasks, open_ips, print_lock, pc, ip, sock_open, net,
                 probe_calls>>

(***************************************************************************)
(* IPScanner.scan_port, one worker thread w.  Positions:                   *)
(*   "idle"       not started yet                                          *)
(*   "empty"      at `while not self.ip_queue.empty()`                     *)
(*   "get"        saw a non-empty queue, at `self.ip_queue.get()`          *)
(*   "socket"     at `socket.socket(...)`                                  *)
(*   "connect"    at settimeout / connect_ex                               *)
(*   "acquire"    result == 0, at `with self.print_lock`                   *)
(*   "append"     holding the lock, at `self.open_ips.append(ip)`          *)
(*   "close"      at `sock.close()`                                        *)
(*   "task_done"  in the finally clause                                    *)
(*   "done"       left the loop, the thread has ended                      *)
(*   "crashed"    an exception left scan_port, the thread has ended        *)
(***************************************************************************)
\* An exception that skips the finally clause and goes on with the loop.
AfterExceptionNoTaskDone == "empty"

\* An exception that nothing catches: it leaves scan_port.
AfterExceptionUncaught == "crashed"

\* Where a worker goes when the body of the try statement raises: the bare
\* `except: pass` swallows the exception and the finally clause runs.
AfterException == "task_done"

\* `while not self.ip_queue.empty()`: the test alone; the queue can change
\* before the worker's next step.
CheckEmpty(w) ==
  /\ pc[w] = "empty"
  /\ pc' = [pc EXCEPT ![w] = IF ip_queue = << >> THEN "done" ELSE "get"]
  /\ UNCHANGED <<other_vars, hostname_result, range_stop, main_pc, network_prefix, i,
                 ip_queue, unfinished_tasks, open_ips, print_lock, ip,
                 sock_open, net, probe_calls>>

\* A get that returns the oldest item and leaves it in the queue.
GetItemKeepsItem(w) ==
  /\ pc[w] = "get"
  /\ ip_queue # << >>
  /\ ip' = [ip EXCEPT ![w] = Head(ip_queue)]
  /\ pc' = [pc EXCEPT ![w] = "socket"]
  /\ UNCHANGED <<other_vars, hostname_result, range_stop, main_pc, network_prefix, i,
                 ip_queue, unfinished_tasks, open_ips, print_lock, sock_open,
                 net, probe_calls>>

\* Queue.get() with block=True: waits while the queue holds no item, then
\* removes and returns the oldest one.
GetItem(w) ==
  /\ pc[w] = "get"
  /\ ip_queue # << >>
  /\ ip' = [ip EXCEPT ![w] = Head(ip_queue)]
  /\ ip_queue' = Tail(ip_queue)
  /\ pc' = [pc EXCEPT ![w] = "socket"]
  /\ UNCHANGED <<other_vars, hostname_result, range_stop, main_pc, network_prefix, i,
                 unfinished_tasks, open_ips, print_lock, sock_open, net,
                 probe_calls>>

\* Whether the address names an IPv4 host: every part of it is a decimal
\* number.  connect_ex raises socket.gaierror on an address that does not.
Resolvable(address) ==
  \A k \in 1..Len(address.prefix) : address.prefix[k] \in OctetStrings

\* The answers the probe of an address can get: an exception when the
\* address does not resolve; else any, the first time, and the network
\* answers the same way whenever the host is probed again.
PossibleOutcomes(address) ==
  IF ~Resolvable(address) THEN {"error"}
  ELSE IF net[address.host] = "none" THEN Outcomes
  ELSE {net[address.host]}

\* `sock = socket.socket(...)`: the probe of ip starts.  Either the call
\* raises (and `sock` keeps its earlier binding), or `sock` is bound to a
\* new open socket; the object bound before is dropped, not closed.
CreateSocket(w) ==
  /\ pc[w] = "socket"
  /\ \E o \in PossibleOutcomes(ip[w]) :
       /\ net' = [net EXCEPT ![ip[w].host] = o]
       /\ \/ /\ o = "error"
             /\ pc' = [pc EXCEPT ![w] = AfterException]
             /\ sock_open' = sock_open
          \/ /\ pc' = [pc EXCEPT ![w] = "connect"]
             /\ sock_open' = [sock_open EXCEPT ![w] = TRUE]
  /\ probe_calls' = [probe_calls EXCEPT ![ip[w].host] = @ + 1]
  /\ UNCHANGED <<other_vars, hostname_result, range_stop, main_pc, network_prefix, i,
                 ip_queue, unfinished_tasks, open_ips, print_lock, ip>>

\* A test that takes every returned value for success.
ResultIsAlwaysOpen(result) == TRUE

\* `if result == 0`
ResultIsOpen(result) == result = 0

\* The values connect_ex can return to the probe of a host that answers o.
ReturnsFor(o) ==
  IF o = "open" THEN {r \in ConnectExReturns : r = 0}
  ELSE IF o = "closed" THEN {r \in ConnectExReturns : r # 0}
  ELSE { }

\* sock.settimeout(0.5); result = sock.connect_ex((ip, 5555)); if result == 0.
\* connect_ex returns 0, returns an errno, or raises (for instance on an
\* address that does not resolve); a raise skips sock.close().
Connect(w) ==
  /\ pc[w] = "connect"
  /\ \/ /\ net[ip[w].host] = "error"
        /\ pc' = [pc EXCEPT ![w] = AfterException]
     \/ \E result \in ReturnsFor(net[ip[w].host]) :
          pc' = [pc EXCEPT ![w] = IF ResultIsOpen(result) THEN "acquire"
                                                           ELSE "close"]
  /\ UNCHANGED <<other_vars, hostname_result, range_stop, main_pc, network_prefix, i,
                 ip_queue, unfinished_tasks, open_ips, print_lock, ip,
                 sock_open, net, probe_calls>>

\* A lock that never makes anyone wait.
LockAlwaysFree == TRUE

\* threading.Lock.acquire: waits until the lock is free.
LockFree == print_lock = 0

\* Entering `with self.print_lock`.
AcquireLock(w) ==
  /\ pc[w] = "acquire"
  /\ LockFree
  /\ print_lock' = w
  /\ pc' = [pc EXCEPT ![w] = "append"]
  /\ UNCHANGED <<other_vars, hostname_result, range_stop, main_pc, network_prefix, i,
                 ip_queue, unfinished_tasks, open_ips, ip, sock_open, net,
                 probe_calls>>

\* self.open_ips.append(ip), then leaving the with block releases the lock.
AppendOpen(w) ==
  /\ pc[w] = "append"
  /\ open_ips' = Append(open_ips, ip[w])
  /\ print_lock' = IF print_lock = w THEN 0 ELSE print_lock
  /\ pc' = [pc EXCEPT ![w] = "close"]
  /\ UNCHANGED <<other_vars, hostname_result, range_stop, main_pc, network_prefix, i,
                 ip_queue, unfinished_tasks, ip, sock_open, net, probe_calls>>

\* sock.close(), then the finally clause.
CloseSocket(w) ==
  /\ pc[w] = "close"
  /\ sock_open' = [sock_open EXCEPT ![w] = FALSE]
  /\ pc' = [pc EXCEPT ![w] = "task_done"]
  /\ UNCHANGED <<other_vars, hostname_result, range_stop, main_pc, network_prefix, i,
                 ip_queue, unfinished_tasks, open_ips, print_lock, ip, net,
                 probe_calls>>

\* A finally clause that marks the item done twice.
TaskDoneCountsTwice(w) ==
  /\ pc[w] = "task_done"
  /\ unfinished_tasks' = unfinished_tasks - 2
  /\ pc' = [pc EXCEPT ![w] = "empty"]
  /\ ip' = [ip EXCEPT ![w] = NoIp]
  /\ UNCHANGED <<other_vars, hostname_result, range_stop, main_pc, network_prefix, i,
                 ip_queue, open_ips, print_lock, sock_open, net, probe_calls>>

\* finally: self.ip_queue.task_done().  Queue.task_done raises ValueError
\* when called more times than there were items; raised in the finally
\* clause, it leaves scan_port.  The iteration is over: `ip` is not read
\* again before the next get() assigns it.
TaskDone(w) ==
  /\ pc[w] = "task_done"
  /\ IF unfinished_tasks = 0
       THEN /\ pc' = [pc EXCEPT ![w] = "crashed"]
            /\ UNCHANGED unfinished_tasks
       ELSE /\ unfinished_tasks' = unfinished_tasks - 1
            /\ pc' = [pc EXCEPT ![w] = "empty"]
  /\ ip' = [ip EXCEPT ![w] = NoIp]
  /\ UNCHANGED <<other_vars, hostname_result, range_stop, main_pc, network_prefix, i,
                 ip_queue, open_ips, print_lock, sock_open, net, probe_calls>>

\* One step of worker thread w.
ScanPort(w) ==
  \/ CheckEmpty(w)
  \/ GetItem(w)
  \/ CreateSocket(w)
  \/ Connect(w)
  \/ AcquireLock(w)
  \/ AppendOpen(w)
  \/ CloseSocket(w)
  \/ TaskDone(w)

\* One step of the thread that called scan_network.
ScanNetwork ==
  \/ GetNetworkPrefix
  \/ Put
  \/ StartThread
  \/ Join

Next ==
  \/ GetNetworkPrefix
  \/ Put
  \/ StartThread
  \/ Join
  \/ \E w \in Threads : CheckEmpty(w)
  \/ \E w \in Threads : GetItem(w)
  \/ \E w \in Threads : CreateSocket(w)
  \/ \E w \in Threads : Connect(w)
  \/ \E w \in Threads : AcquireLock(w)
  \/ \E w \in Threads : AppendOpen(w)
  \/ \E w \in Threads : CloseSocket(w)
  \/ \E w \in Threads : TaskDone(w)

\* One scan on a fresh IPScanner, over the shortened candidate range.
Spec == Init /\ [][Next]_vars

\* The same scan with the threads scheduled: as long as some thread can
\* take a step, some thread eventually takes one.  Fair scheduling of each
\* thread implies it, so what holds here holds under fair scheduling.
FairSpec == Spec /\ WF_vars(Next)

\* The enqueue loop alone, over the source's range(1, 255).
NextEnum ==
  \/ GetNetworkPrefix
  \/ Put

SpecEnum == InitEnum /\ [][NextEnum]_vars

(***************************************************************************)
(* A second scan after the first has returned.                             *)
(***************************************************************************)
\* The elements of a list.
Elems(s) == {s[k] : k \in 1..Len(s)}

\* What a second call of scan_network starts from, whatever the scanner:
\* the locals of the call are new, the network is the one the first call
\* probed, and the list the first call returned is remembered.
CallAgain ==
  /\ main_pc = "returned"
  /\ scan_no = 1
  /\ scan_no' = 2
  /\ first_found' = Elems(open_ips)
  /\ main_pc' = "get_network_prefix"
  /\ network_prefix' = << >>
  /\ i' = RangeStart
  /\ probe_calls' = [h \in DOMAIN probe_calls |-> 0]
  /\ UNCHANGED <<hostname_result, range_stop, net, app_vars, screen_vars>>

\* scan_network is called again on the same IPScanner: __init__ does not
\* run again, so the list, the queue, the lock and the threads of the first
\* call, those blocked in get() included, are still there.
ScanAgainSameScanner ==
  /\ CallAgain
  /\ UNCHANGED <<ip_queue, unfinished_tasks, open_ips, print_lock, pc, ip,
                 sock_open>>

\* ScannerApp.scan_thread: every scan makes its own scanner, IPScanner(),
\* and calls scan_network on it.  The threads of the earlier scanner that
\* are still alive keep working on that scanner's (empty) queue and share
\* nothing with the new one: they are "orphan" from here on.
ScanAgainNewScanner ==
  /\ CallAgain
  /\ open_ips' = << >>
  /\ ip_queue' = << >>
  /\ unfinished_tasks' = 0
  /\ print_lock' = 0
  /\ pc' = [w \in Threads |-> IF pc[w] = "idle" THEN "idle" ELSE "orphan"]
  /\ ip' = [w \in Threads |-> NoIp]
  /\ UNCHANGED sock_open

\* Two scans the way the application runs them, each on its own scanner.
NextRescan ==
  \/ Next
  \/ ScanAgainNewScanner

\* Two calls of scan_network on one scanner.
NextSameScanner ==
  \/ Next
  \/ ScanAgainSameScanner

\* The two-scan specification starts on a host whose first address is a
\* dotted IPv4 address and enumerates the range 1..MaxHost-1.
InitRescan ==
  /\ InitCommon
  /\ hostname_result \in {r \in ScanHostnameResults : Resolvable(Address(PrefixOf(r), 1))}
  /\ range_stop = MaxHost
  /\ net = [h \in RangeStart..(MaxHost - 1) |-> "none"]
  /\ probe_calls = [h \in RangeStart..(MaxHost - 1) |-> 0]

\* Two scans of an unchanged network, the second on a new scanner.
SpecRescan == InitRescan /\ [][NextRescan]_vars

\* Two scans of an unchanged network on the same scanner.
SpecSameScanner == InitRescan /\ [][NextSameScanner]_vars

(***************************************************************************)
(* ScannerApp: the window, its scan threads and the Tk main loop.  The     *)
(* handlers run one at a time on the main loop; the scan threads run       *)
(* beside it.  A scan thread's scanner.scan_network() is taken by what it  *)
(* returns: a list without duplicates of candidate addresses, in any       *)
(* order.  Of the texts of status_label only the kind of message is kept.  *)
(***************************************************************************)
\* The candidate addresses of a scan.
Candidates ==
  {Address(PrefixOf(hostname_result), h) : h \in RangeStart..(range_stop - 1)}

\* The lists scan_network can return.
ScanResults ==
  { q \in UNION {[1..n -> Candidates] : n \in 0..Cardinality(Candidates)} :
      \A j, k \in 1..Len(q) : q[j] = q[k] => j = k }

\* ScannerApp.start_scan: the Scan button is disabled, the list is emptied
\* (its selection with it) and a scan thread is started.
StartScan ==
  /\ scans_started < MaxScans
  /\ status_label' = "Scanning network"
  /\ scan_button' = "disabled"
  /\ device_listbox' = << >>
  /\ selection' = 0
  /\ scanning' = scanning + 1
  /\ scans_started' = scans_started + 1
  /\ UNCHANGED <<refresh_button, connect_button, devices, assigned,
                 pending_updates, launched>>
  /\ UNCHANGED <<scanner_vars, scan_no, first_found, screen_vars>>

\* Whether a click on a button runs its command.
ButtonEnabled(button) == button = "normal"

\* The user clicks "Scan Network" (command=self.start_scan).
ClickScanButton ==
  /\ ButtonEnabled(scan_button)
  /\ StartScan

\* The user clicks "Refresh" (command=self.refresh_scan, which calls
\* start_scan).
ClickRefreshButton ==
  /\ ButtonEnabled(refresh_button)
  /\ StartScan

\* ScannerApp.scan_thread, `self.devices = scanner.scan_network()`, on the
\* scan thread.
ScanThreadAssign ==
  /\ scanning > 0
  /\ \E result \in ScanResults : devices' = result
  /\ scanning' = scanning - 1
  /\ assigned' = assigned + 1
  /\ UNCHANGED <<scan_button, refresh_button, connect_button, status_label,
                 device_listbox, selection, pending_updates, scans_started,
                 launched>>
  /\ UNCHANGED <<scanner_vars, scan_no, first_found, screen_vars>>

\* ScannerApp.scan_thread, `self.root.after(0, self.update_device_list)`.
ScanThreadAfter ==
  /\ assigned > 0
  /\ assigned' = assigned - 1
  /\ pending_updates' = pending_updates + 1
  /\ UNCHANGED <<scan_button, refresh_button, connect_button, status_label,
                 device_listbox, selection, devices, scanning, scans_started,
                 launched>>
  /\ UNCHANGED <<scanner_vars, scan_no, first_found, screen_vars>>

\* ScannerApp.update_device_list, run by the main loop for a queued
\* callback: the list is rebuilt from self.devices as it is now.
UpdateDeviceList ==
  /\ pending_updates > 0
  /\ pending_updates' = pending_updates - 1
  /\ device_listbox' = devices
  /\ selection' = 0
  /\ IF devices = << >>
       THEN /\ status_label' = "No devices found"
            /\ connect_button' = "disabled"
       ELSE /\ status_label' = "Found devices"
            /\ connect_button' = "normal"
  /\ scan_button' = "normal"
  /\ refresh_button' = "normal"
  /\ UNCHANGED <<devices, scanning, assigned, scans_started, launched>>
  /\ UNCHANGED <<scanner_vars, scan_no, first_found, screen_vars>>

\* The user clicks row k of the list (selectmode=tk.SINGLE).
SelectRow(k) ==
  /\ k \in 1..Len(device_listbox)
  /\ selection' = k
  /\ UNCHANGED <<scan_button, refresh_button, connect_button, status_label,
                 device_listbox, devices, scanning, assigned, pending_updates,
                 scans_started, launched>>
  /\ UNCHANGED <<scanner_vars, scan_no, first_found, screen_vars>>

\* The address connect_to_device takes for the selected row:
\* self.devices[selected_index[0]].
SelectedIp == devices[selection]

\* ScannerApp.connect_to_device: without a selection a message box and
\* nothing else; with an index past the end of self.devices an IndexError
\* ends the callback; otherwise launch_scrcpy is started for the address.
ConnectToDevice ==
  /\ IF selection = 0 \/ selection > Len(devices)
       THEN UNCHANGED <<status_label, launched>>
       ELSE /\ status_label' = "Connecting"
            /\ launched' = [target |-> Target(SelectedIp),
                            row |-> device_listbox[selection]]
  /\ UNCHANGED <<scan_button, refresh_button, connect_button,
                 device_listbox, selection, devices, scanning, assigned,
                 pending_updates, scans_started>>
  /\ UNCHANGED <<scanner_vars, scan_no, first_found, screen_vars>>

\* The user clicks "Connect & Mirror" (command=self.connect_to_device).
ClickConnectButton ==
  /\ ButtonEnabled(connect_button)
  /\ ConnectToDevice

\* The user double-clicks in the list ('<Double-1>' is bound to
\* connect_to_device whatever the state of the buttons).
DoubleClickList == ConnectToDevice

(***************************************************************************)
(* ScannerApp.screen_off.  Each `xdotool search` prints window ids         *)
(* ("found"), prints nothing ("empty"), or subprocess.run raises           *)
(* ("raises"); windowactivate and key each run or raise.                   *)
(***************************************************************************)
SearchResults == {"found", "empty", "raises"}

\* A shortcut choice with the two commands exchanged.
KeyCommandExchanged(is_off) == IF is_off THEN "alt+o" ELSE "alt+shift+o"

\* The shortcut for the tracked state: alt+o when the screen is on,
\* alt+shift+o when it is off.
KeyCommand(is_off) == IF is_off THEN "alt+shift+o" ELSE "alt+o"

\* The except clause: only the status label changes.
ScreenCommandError ==
  /\ status_label' = "Error sending screen command"
  /\ UNCHANGED screen_vars

\* A window was found: the window is activated, the shortcut is sent, then
\* the tracked state and the button text are toggled.
SendScreenKey(activate_raises, key_raises) ==
  IF activate_raises \/ key_raises
    THEN ScreenCommandError
    ELSE /\ keys_sent' = Append(keys_sent, KeyCommand(screen_is_off))
         /\ screen_is_off' = ~screen_is_off
         /\ screen_off_button' = IF screen_is_off' THEN "Screen On" ELSE "Screen Off"
         /\ status_label' = IF screen_is_off THEN "Screen turned ON"
                                             ELSE "Screen turned OFF"

\* The whole handler: search by class, then by name, and when both print
\* nothing, by visible name pattern.
ScreenOff ==
  /\ Len(keys_sent) < MaxKeys
  /\ \E by_class \in SearchResults :
       IF by_class = "raises" THEN ScreenCommandError
       ELSE IF by_class = "found"
         THEN \E activate_raises, key_raises \in BOOLEAN :
                SendScreenKey(activate_raises, key_raises)
       ELSE \E by_name \in SearchResults :
         IF by_name = "raises" THEN ScreenCommandError
         ELSE IF by_name = "found"
           THEN \E activate_raises, key_raises \in BOOLEAN :
                  SendScreenKey(activate_raises, key_raises)
         ELSE \E by_pattern \in SearchResults :
           IF by_pattern = "raises" THEN ScreenCommandError
           ELSE IF by_pattern = "found"
             THEN \E activate_raises, key_raises \in BOOLEAN :
                    SendScreenKey(activate_raises, key_raises)
           ELSE /\ status_label' = "No scrcpy window found"
                /\ UNCHANGED screen_vars
  /\ UNCHANGED <<scan_button, refresh_button, connect_button,
                 device_listbox, selection, devices, scanning, assigned,
                 pending_updates, scans_started, launched>>
  /\ UNCHANGED <<scanner_vars, scan_no, first_found>>

\* The application starts on a host whose first address is a dotted IPv4
\* address; its scans enumerate the range 1..MaxHost-1.
InitGui ==
  /\ InitCommon
  /\ hostname_result \in {r \in ScanHostnameResults : Resolvable(Address(PrefixOf(r), 1))}
  /\ range_stop = MaxHost
  /\ net = [h \in RangeStart..(MaxHost - 1) |-> "none"]
  /\ probe_calls = [h \in RangeStart..(MaxHost - 1) |-> 0]

NextGui ==
  \/ ClickScanButton
  \/ ClickRefreshButton
  \/ ScanThreadAssign
  \/ ScanThreadAfter
  \/ UpdateDeviceList
  \/ \E k \in 1..Len(device_listbox) : SelectRow(k)
  \/ ClickConnectButton
  \/ DoubleClickList

\* One run of the application: scanning, selecting, connecting.
SpecGui == InitGui /\ [][NextGui]_vars

\* The screen toggle of the application, clicked again and again.
NextScreen == ScreenOff

SpecScreen == InitGui /\ [][NextScreen]_vars

(***************************************************************************)
(* Vocabulary of the properties.                                           *)
(***************************************************************************)
\* The host numbers this run enumerates.
Hosts == RangeStart..(range_stop - 1)

\* scan_network has returned.
Returned == main_pc = "returned"

\* Worker w holds a dequeued address whose processing (probe, append,
\* close, task_done) has not finished.
InFlight(w) ==
  pc[w] \in {"socket", "connect", "acquire", "append", "close", "task_done"}

\* The candidate addresses whose probe was answered `open`.
OpenAddresses == {Address(network_prefix, h) : h \in {g \in Hosts : net[g] = "open"}}

(***************************************************************************)
(* C1.  scan_network does not return before every enqueued address has     *)
(* been dequeued and its processing has finished: when it has returned,    *)
(* the queue is empty, every host has been probed and no worker is still   *)
(* processing an address.                                                  *)
(***************************************************************************)
C1_ReturnsOnlyWhenDrained ==
  Returned =>
    /\ ip_queue = << >>
    /\ \A h \in Hosts : net[h] # "none" /\ probe_calls[h] >= 1
    /\ \A w \in Workers : ~InFlight(w)

\* A scan that returned after finding an open host.
C1_Witness == Returned /\ open_ips # << >>

(***************************************************************************)
(* C2.  Whatever the answers of the hosts and the interleaving of the      *)
(* workers, the returned list holds exactly the addresses whose probe was  *)
(* answered open.                                                          *)
(***************************************************************************)
C2_ReturnsExactlyOpen == Returned => Elems(open_ips) = OpenAddresses

\* A scan that returned two open hosts and left out a closed one.
C2_Witness ==
  /\ Returned
  /\ Len(open_ips) >= 2
  /\ \E h \in Hosts : net[h] = "closed"

(***************************************************************************)
(* C3.  Every enqueued address is probed exactly once: never twice, never  *)
(* by two workers at a time, and once a scan has returned, not zero times. *)
(***************************************************************************)
C3_ProbedExactlyOnce ==
  /\ \A h \in Hosts : probe_calls[h] <= 1
  /\ \A w1, w2 \in Workers :
       (w1 # w2 /\ InFlight(w1) /\ InFlight(w2)) => ip[w1] # ip[w2]
  /\ Returned => \A h \in Hosts : probe_calls[h] = 1

\* Two workers probing at the same time while the queue still holds an item.
C3_Witness ==
  /\ \E w1, w2 \in Workers : w1 # w2 /\ pc[w1] = "connect" /\ pc[w2] = "connect"
  /\ ip_queue # << >>

(***************************************************************************)
(* C4.  Under fair scheduling of the threads, with every probe returning,  *)
(* scan_network eventually returns.                                        *)
(***************************************************************************)
C4_ScanEventuallyReturns == <>Returned

\* A scan that returned with nothing open.
C4_Witness ==
  /\ Returned
  /\ open_ips = << >>
  /\ \A h \in Hosts : net[h] \in {"closed", "error"}

(***************************************************************************)
(* C5.  A probe that raises does not abort the scan: no exception leaves   *)
(* a worker, and a scan that has returned has probed every host and kept   *)
(* every host whose probe raised out of the result.                        *)
(***************************************************************************)
C5_ProbeFailureAbsorbed ==
  /\ \A w \in Workers : pc[w] # "crashed"
  /\ Returned =>
       \A h \in Hosts :
         /\ net[h] # "none"
         /\ net[h] = "error" => Address(network_prefix, h) \notin Elems(open_ips)

\* A scan that returned an open host although the probe of another raised.
C5_Witness ==
  /\ Returned
  /\ \E h \in Hosts : net[h] = "error"
  /\ \E h \in Hosts : net[h] = "open" /\ Address(network_prefix, h) \in Elems(open_ips)

(***************************************************************************)
(* C6.  When prefix detection fails (the command is missing, no address is *)
(* printed, or the first token printed is not a dotted IPv4 address) the   *)
(* scan uses exactly the fallback prefix "192.168.1", for the prefix and   *)
(* for every candidate it enqueues or probes.                              *)
(***************************************************************************)
\* A token that is a dotted IPv4 address: four parts, each an octet.
IsDottedIPv4(token) ==
  /\ Len(token) = 4
  /\ \A k \in 1..Len(token) : token[k] \in OctetStrings

\* The failures of prefix detection the specification lists.
DetectionFailed(r) ==
  \/ r.raises
  \/ r.stdout = << >>
  \/ ~IsDottedIPv4(Head(r.stdout))

C6_FallbackOnDetectionFailure ==
  (main_pc # "get_network_prefix" /\ DetectionFailed(hostname_result)) =>
    /\ network_prefix = FallbackPrefix
    /\ \A k \in 1..Len(ip_queue) : ip_queue[k].prefix = FallbackPrefix
    /\ \A w \in Workers : InFlight(w) => ip[w].prefix = FallbackPrefix

(***************************************************************************)
(* C7.  The candidates enqueued are the addresses prefix.1 to prefix.254,  *)
(* each once, in ascending order of the host number: at every moment the   *)
(* queue holds prefix.1, prefix.2, ... in this order, never more than 254  *)
(* of them, and all 254 once the enqueue loop has been left.               *)
(***************************************************************************)
C7_EnqueuesHosts1To254 ==
  /\ \A k \in 1..Len(ip_queue) : ip_queue[k] = Address(network_prefix, k)
  /\ Len(ip_queue) <= 254
  /\ main_pc = "start_threads" => Len(ip_queue) = 254

\* The enqueue loop has been left with the queue filled for prefix 10.0.0.
C7_Witness ==
  /\ main_pc = "start_threads"
  /\ network_prefix = <<"10", "0", "0">>
  /\ Len(ip_queue) = 254
  /\ ip_queue[254] = Address(<<"10", "0", "0">>, 254)

(***************************************************************************)
(* C8.  No worker ever blocks waiting on the queue: a worker is never at   *)
(* get() with the queue empty (all the items were put before the first     *)
(* thread was started, so such a worker waits for ever).                   *)
(***************************************************************************)
C8_NoWorkerBlocksOnQueue ==
  \A w \in Workers : ~(pc[w] = "get" /\ ip_queue = << >>)

(***************************************************************************)
(* C9.  The appends to open_ips are serialized: at most one worker is      *)
(* inside the append at any time, that worker holds print_lock, the lock   *)
(* is held by no one else, and no append is lost: the list never holds     *)
(* an address twice, and when the scan has returned its length is the      *)
(* number of probes answered open.                                         *)
(***************************************************************************)
C9_AppendsSerialized ==
  /\ \A w1, w2 \in Workers :
       (pc[w1] = "append" /\ pc[w2] = "append") => w1 = w2
  /\ \A w \in Workers : pc[w] = "append" <=> print_lock = w
  /\ \A j, k \in 1..Len(open_ips) : open_ips[j] = open_ips[k] => j = k
  /\ Returned => Len(open_ips) = Cardinality({h \in Hosts : net[h] = "open"})

\* One worker inside the append while another waits for the lock.
C9_Witness ==
  \E w1, w2 \in Workers :
    /\ pc[w1] = "append" /\ print_lock = w1
    /\ pc[w2] = "acquire"

(***************************************************************************)
(* C10.  Every socket a worker opens is closed before the worker moves on  *)
(* to the next address or exits: a worker at the loop head, at get() or    *)
(* out of the loop holds no open socket.                                   *)
(***************************************************************************)
C10_SocketClosedBeforeMovingOn ==
  \A w \in Workers : pc[w] \in {"empty", "get", "done", "crashed"} => ~sock_open[w]

(***************************************************************************)
(* C11.  A prefix that is not three dot-separated octets is rejected       *)
(* before enumeration: no candidate address that is enqueued or being      *)
(* probed is built from a malformed prefix.                                *)
(***************************************************************************)
\* A network prefix: exactly three parts, each an octet.
IsNetworkPrefix(prefix) ==
  /\ Len(prefix) = 3
  /\ \A k \in 1..Len(prefix) : prefix[k] \in OctetStrings

C11_MalformedPrefixNeverEnumerated ==
  /\ \A k \in 1..Len(ip_queue) : IsNetworkPrefix(ip_queue[k].prefix)
  /\ \A w \in Workers : InFlight(w) => IsNetworkPrefix(ip[w].prefix)

(***************************************************************************)
(* C15.  The list a scan returns is final at the moment of return: once    *)
(* scan_network has returned, no step of a worker of that scan changes     *)
(* open_ips.                                                               *)
(***************************************************************************)
C15_ResultFinalAtReturn == [][Returned => open_ips' = open_ips]_vars

\* A scan that returned a non-empty list while one of its workers is still
\* alive, blocked in get().
C15_Witness ==
  /\ Returned
  /\ open_ips # << >>
  /\ \E w \in Workers : pc[w] = "get"

(***************************************************************************)
(* C18.  The queue accounting is balanced: unfinished_tasks is always the  *)
(* number of enqueued addresses whose processing has not finished (those   *)
(* still in the queue and those a worker holds), it is never negative,     *)
(* task_done never raises for want of a matching get(), and the count is   *)
(* zero only when every address put so far is finished.                    *)
(***************************************************************************)
C18_QueueAccountingBalanced ==
  /\ unfinished_tasks =
       Len(ip_queue) + Cardinality({w \in Workers : InFlight(w)})
  /\ unfinished_tasks >= 0
  /\ \A w \in Workers : pc[w] # "crashed"
  /\ unfinished_tasks = 0 =>
       \A h \in Hosts : h < i => (net[h] # "none" /\ probe_calls[h] = 1)

\* The last address is being marked done: one task unfinished, the queue
\* empty, a worker in the finally clause.
C18_Witness ==
  /\ unfinished_tasks = 1
  /\ ip_queue = << >>
  /\ \E w \in Workers : pc[w] = "task_done"

(***************************************************************************)
(* C12.  Two scans of an unchanged network return the same set of open     *)
(* addresses: when the second scan has returned, the elements of its list  *)
(* are those of the list the first scan returned.                          *)
(***************************************************************************)
C12_SameSetBothTimes ==
  (scan_no = 2 /\ Returned) => Elems(open_ips) = first_found

\* A second scan that returned, on a network with an open and a closed host.
C12_Witness ==
  /\ scan_no = 2
  /\ Returned
  /\ first_found # { }
  /\ \E h \in Hosts : net[h] = "closed"

(***************************************************************************)
(* C13.  No scan state persists across scans: every call of scan_network,  *)
(* a second call on the same IPScanner included, starts with an empty      *)
(* queue and an empty result list, and the list it returns holds each open *)
(* address once and nothing else.                                          *)
(***************************************************************************)
C13_NoStateAcrossScans ==
  /\ main_pc = "get_network_prefix" => (open_ips = << >> /\ ip_queue = << >>)
  /\ Returned =>
       /\ \A j, k \in 1..Len(open_ips) : open_ips[j] = open_ips[k] => j = k
       /\ Elems(open_ips) = OpenAddresses

(***************************************************************************)
(* C14.  Whenever connect_to_device launches a mirroring session for a     *)
(* selected row, its target is address:5555 for the address displayed in   *)
(* that row of the device list.                                            *)
(***************************************************************************)
C14_LaunchTargetsDisplayedRow ==
  launched # NoLaunch => launched.target = Target(launched.row)

(***************************************************************************)
(* C16.  At most one scan is in progress at a time: the scan threads       *)
(* started whose update_device_list has not run yet (inside scan_network,  *)
(* before root.after, or with the callback queued) number at most one.     *)
(***************************************************************************)
C16_AtMostOneScanInProgress == scanning + assigned + pending_updates <= 1

(***************************************************************************)
(* C17.  The tracked screen state changes only on a sent key command.      *)
(* The button reads "Screen On" exactly when screen_is_off is true.  A     *)
(* step that changes screen_is_off, the button text or the keys sent       *)
(* sends exactly one key, alt+o when the screen was on and alt+shift+o     *)
(* when it was off, and flips screen_is_off.  A run of the handler that    *)
(* found no window or raised changes none of them.                         *)
(***************************************************************************)
C17_ScreenStateFollowsKeys ==
  /\ [](screen_off_button = (IF screen_is_off THEN "Screen On" ELSE "Screen Off"))
  /\ [][ (screen_vars' # screen_vars) =>
           /\ keys_sent' = Append(keys_sent, IF screen_is_off THEN "alt+shift+o"
                                                               ELSE "alt+o")
           /\ screen_is_off' = ~screen_is_off ]_vars
  /\ [][ (status_label' \in {"No scrcpy window found",
                             "Error sending screen command"}) =>
           screen_vars' = screen_vars ]_vars

\* The screen was turned off by one alt+o, and a later click that found no
\* window left it so.
C17_Witness ==
  /\ keys_sent = <<"alt+o">>
  /\ screen_is_off
  /\ screen_off_button = "Screen On"
  /\ status_label = "No scrcpy window found"

=============================================================================
